---- MODULE Spec2Model ----
(***************************************************************************)
(* Model of the secret-santa registry server (src/src/index.ts): the       *)
(* in-memory registry (participants map and the three event flags), the    *)
(* request handlers for register, shuffle and reopen with their await      *)
(* points, and the persistence queue with its temp-file write and rename.  *)
(*                                                                         *)
(* JavaScript runs one handler at a time; a handler gives up control only  *)
(* at an await.  Each action below is one synchronous section of a         *)
(* handler, from one await to the next.                                    *)
(*                                                                         *)
(* Left out: ipAddress (copied through snapshots like name, read by no     *)
(* decision) and the pages.                                                *)
(***************************************************************************)
EXTENDS Integers, Sequences, FiniteSets, TLC

\* ------------------------------------------------------------------ bounds
MaxTokens == 3      \* size of the finite token space randomToken draws from
MaxRequests == 2    \* requests that may be in flight at the same time
MaxTime == 1        \* readings of the wall clock are 1..MaxTime
MaxShuffleTokens == 4  \* registry sizes of the shuffle-only specification
MaxDurable == 2     \* snapshots renamed into place in a run that records them
MaxKnown == 2       \* participants inserted in a run that tells them apart

\* ------------------------------------------------------- program constants
NameLimit == 64     \* name.length > 64 is rejected
MinShuffle == 2     \* tokens.length < 2 is rejected

TokenNames == <<"t1", "t2", "t3", "t4", "t5", "t6">>
TokenSpace(n) == {TokenNames[i] : i \in 1..n}
Tokens == TokenSpace(MaxTokens)
Requests == 1..MaxRequests
Times == 1..MaxTime

\* JavaScript undefined and null; a missing timestamp (null) is 0.
Undefined == "undefined"
Null == "(null)"
NullTime == 0

\* Strings whose characters matter (names, passwords) are sequences of
\* one-character strings.
AdminPassword == <<"p">>
LongName == [i \in 1..(NameLimit + 1) |-> "x"]
NameInputs == {<<>>, <<" ">>, <<" ", "A", " ">>, <<"A">>, LongName}
BadJson == [json |-> FALSE, hasField |-> FALSE, value |-> <<>>]
NoField == [json |-> TRUE, hasField |-> FALSE, value |-> <<>>]
Field(v) == [json |-> TRUE, hasField |-> TRUE, value |-> v]
RegisterBodies == {BadJson, NoField} \cup {Field(n) : n \in NameInputs}
OtherName == <<"B">>
PasswordInputs == {<<"p">>, <<" ", "p">>, <<"q">>, <<" ">>}
PasswordBodies == {BadJson, NoField} \cup {Field(p) : p \in PasswordInputs}

VARIABLES
    participants,      \* the Map: a function from its keys to its values
    assignmentsReady,
    lastShuffledAt,
    registrationOpen,
    persistQueue,      \* writeOps chained on persistQueue that have not settled
    writer,            \* where the head writeOp stands
    tempFile,          \* the head writeOp's temporary file
    disk,              \* participants.json: <<>> when absent, else <<content>>
    req,               \* the requests in flight, one slot each
    response,          \* the last response sent
    issued,            \* tokens returned by a 201 response
    durable,           \* the states participants.json has held, startup included
    known,             \* the participants inserted, and whether a 201 told so
    process,           \* "starting" up to line 320, then "serving" or "exited"
    recording          \* which of the records of a run this run keeps

vars == <<participants, assignmentsReady, lastShuffledAt, registrationOpen,
          persistQueue, writer, tempFile, disk, req, response, issued, durable,
          known, process, recording>>

registry == <<participants, assignmentsReady, lastShuffledAt, registrationOpen>>
store == <<persistQueue, writer, tempFile, disk>>
history == <<issued, durable, known, recording>>

\* ----------------------------------------------------------------- helpers
RECURSIVE TrimLeft(_)
TrimLeft(s) == IF s # <<>> /\ Head(s) = " " THEN TrimLeft(Tail(s)) ELSE s

RECURSIVE TrimRight(_)
TrimRight(s) ==
    IF s # <<>> /\ s[Len(s)] = " " THEN TrimRight(SubSeq(s, 1, Len(s) - 1)) ELSE s

Trim(s) == TrimRight(TrimLeft(s))

\* A Map is the function from its keys to its values, and the array of a
\* snapshot is the function from the token of each entry to the entry: the
\* order of insertion, which only orders the array, is left out.
EmptyMap == [t \in {} |-> Null]

Keys(ps) == DOMAIN ps

\* Map.prototype.set
MapSet(ps, p) == [t \in Keys(ps) \cup {p.token} |-> IF t = p.token THEN p ELSE ps[t]]

\* ------------------------------------------------------ snapshots and files
Capture(ps, ready, shuffledAt, open) ==
    [assignmentsReady |-> ready,
     lastShuffledAt |-> shuffledAt,
     registrationOpen |-> open,
     participants |->
        [t \in Keys(ps) |->
            [token |-> ps[t].token,
             name |-> ps[t].name,
             assignmentToken |->
                IF ps[t].assignmentToken = Undefined THEN Null
                ELSE ps[t].assignmentToken,
             registeredAt |-> ps[t].registeredAt]]]

captureState ==
    Capture(participants, assignmentsReady, lastShuffledAt, registrationOpen)

\* The state of the module before any request: lines 35-38.
InitialState == Capture(EmptyMap, FALSE, NullTime, TRUE)

\* restoreState that forgets the assignment of an entry.
RestoredEntryUnassigned(entry) ==
    [token |-> entry.token,
     name |-> entry.name,
     assignmentToken |-> Undefined,
     registeredAt |-> entry.registeredAt]

RestoredEntry(entry) ==
    [token |-> entry.token,
     name |-> entry.name,
     assignmentToken |->
        IF entry.assignmentToken = Null THEN Undefined ELSE entry.assignmentToken,
     registeredAt |-> entry.registeredAt]

\* The places of an array, in the order of the array: those of a snapshot
\* are named by the tokens, those of a store file that was not written by
\* the server by k1 to k6.
ArrayKeys == TokenNames \o <<"k1", "k2", "k3", "k4", "k5", "k6">>
ArrayIndex(k) == CHOOSE i \in DOMAIN ArrayKeys : ArrayKeys[i] = k

\* participants.clear(), then one participants.set per entry, in the order
\* of the array: of two entries with one token the later one stays.
RestoredParticipants(state) ==
    [t \in {state.participants[k].token : k \in DOMAIN state.participants} |->
        LET ks == {k \in DOMAIN state.participants : state.participants[k].token = t}
            k == CHOOSE k \in ks :
                    \A j \in ks : j = k \/ ArrayIndex(j) < ArrayIndex(k)
        IN  RestoredEntry(state.participants[k])]

\* restoreState without line 151.
restoreStateTimeKept(state) ==
    /\ participants' = RestoredParticipants(state)
    /\ assignmentsReady' = state.assignmentsReady
    /\ lastShuffledAt' = lastShuffledAt
    /\ registrationOpen' = state.registrationOpen

\* restoreState without lines 140-149: the Map stays as it is.
restoreStateFlagsOnly(state) ==
    /\ participants' = participants
    /\ assignmentsReady' = state.assignmentsReady
    /\ lastShuffledAt' = state.lastShuffledAt
    /\ registrationOpen' = state.registrationOpen

\* restoreState that forgets registrationOpen.
restoreStateFlagKept(state) ==
    /\ participants' = RestoredParticipants(state)
    /\ assignmentsReady' = state.assignmentsReady
    /\ lastShuffledAt' = state.lastShuffledAt
    /\ registrationOpen' = registrationOpen

restoreState(state) ==
    /\ participants' = RestoredParticipants(state)
    /\ assignmentsReady' = state.assignmentsReady
    /\ lastShuffledAt' = state.lastShuffledAt
    /\ registrationOpen' = state.registrationOpen

WholeFile(payload) == [complete |-> TRUE, data |-> payload]
PartFile(payload) == [complete |-> FALSE, data |-> payload]

\* JSON.stringify leaves out a property whose value is undefined; null,
\* strings and booleans come back from JSON.parse as they went in.
Missing == "missing"
Stringify(snapshot) ==
    [snapshot EXCEPT !.participants =
        [k \in DOMAIN @ |->
            [@[k] EXCEPT !.assignmentToken = IF @ = Undefined THEN Missing ELSE @]]]

\* A JSON value that is neither an object nor an array: null, a number, a
\* string, a boolean.
JsonScalar(v) == [scalar |-> v]
IsScalar(x) == "scalar" \in DOMAIN x

\* Lines 171-172: "token" in participant ? String(participant.token) : "",
\* and the same for the name.  String(null) is the text null.
NullName == <<"n", "u", "l", "l">>
TokenOnLoad(entry) ==
    IF entry.token = Missing THEN ""
    ELSE IF entry.token = Null THEN "null" ELSE entry.token
NameOnLoad(entry) ==
    IF entry.name = <<Missing>> THEN <<>>
    ELSE IF entry.name = <<Null>> THEN NullName ELSE entry.name

\* Lines 167-176: an entry that is no object, or whose token or name comes
\* out empty, is dropped.
KeptOnLoad(entry) ==
    IF IsScalar(entry) THEN FALSE
    ELSE TokenOnLoad(entry) # "" /\ NameOnLoad(entry) # <<>>

\* The sanitizing of an entry that takes no assignmentToken from the file.
SanitizedEntryUnassigned(entry, now) ==
    [token |-> TokenOnLoad(entry),
     name |-> NameOnLoad(entry),
     registeredAt |-> IF entry.registeredAt = NullTime THEN now ELSE entry.registeredAt,
     assignmentToken |-> Null]

\* Lines 178-200: a registeredAt that is no non-empty string becomes the time
\* of the load, an assignmentToken that is no non-empty string becomes null.
SanitizedEntry(entry, now) ==
    [token |-> TokenOnLoad(entry),
     name |-> NameOnLoad(entry),
     registeredAt |-> IF entry.registeredAt = NullTime THEN now ELSE entry.registeredAt,
     assignmentToken |->
        IF entry.assignmentToken \in {Missing, Null, ""} THEN Null
        ELSE entry.assignmentToken]

\* Lines 164-207, on the parsed contents of a complete file.  A flag the
\* object does not have is undefined: Boolean(undefined) is false, and
\* undefined is neither a string nor a boolean.
Sanitized(parsed, now) ==
    [participants |->
        [k \in {k \in DOMAIN parsed.participants : KeptOnLoad(parsed.participants[k])} |->
            SanitizedEntry(parsed.participants[k], now)],
     assignmentsReady |->
        IF "assignmentsReady" \in DOMAIN parsed THEN parsed.assignmentsReady
        ELSE FALSE,
     lastShuffledAt |->
        IF "lastShuffledAt" \in DOMAIN parsed THEN parsed.lastShuffledAt
        ELSE NullTime,
     registrationOpen |->
        IF "registrationOpen" \in DOMAIN parsed THEN parsed.registrationOpen
        ELSE TRUE]

\* Line 160: the parsed value is an object and its participants is an array.
IsStore(parsed) ==
    IF IsScalar(parsed) \/ "participants" \notin DOMAIN parsed THEN FALSE
    ELSE ~IsScalar(parsed.participants)

\* A catch block for which a missing file is an error like any other.
LoadableIfPresent(files) ==
    IF files = <<>> THEN FALSE
    ELSE IF files[1].complete THEN IsStore(files[1].data) ELSE FALSE

\* loadPersistedState on a module that has just been evaluated: without a
\* file (ENOENT) the state of lines 35-38 stays, otherwise the sanitized
\* contents are restored.  A file that does not parse ends the process.
Loadable(files) ==
    IF files = <<>> THEN TRUE
    ELSE IF files[1].complete THEN IsStore(files[1].data) ELSE FALSE
loadPersistedState(files, now) ==
    IF files = <<>> THEN restoreState(InitialState)
    ELSE restoreState(Sanitized(files[1].data, now))

\* persistState that skips the write when the registry has not changed.
EnqueuedIfChanged(r, ps, ready, shuffledAt, open) ==
    IF Capture(ps, ready, shuffledAt, open) = captureState THEN persistQueue
    ELSE Append(persistQueue, [req |-> r, payload |-> Capture(ps, ready, shuffledAt, open)])

\* persistState handed a snapshot that was taken before the mutation.
EnqueuedBefore(r, ps, ready, shuffledAt, open) ==
    Append(persistQueue, [req |-> r, payload |-> Stringify(captureState)])

\* persistState up to its return: the snapshot is taken and the writeOp chained.
Enqueued(r, ps, ready, shuffledAt, open) ==
    Append(persistQueue,
           [req |-> r, payload |-> Stringify(Capture(ps, ready, shuffledAt, open))])

\* --------------------------------------------------------- request records
\* A request in flight: where its handler stands, its previousState and token
\* variables, and (kept only by the runs that record it) the canonical file
\* as it was when the handler changed the registry.
Slot(pc, kind, previousState, token) ==
    [pc |-> pc, kind |-> kind, previousState |-> previousState, token |-> token,
     password |-> <<>>,
     diskBefore |-> IF "disk" \in recording /\ pc = "waiting" THEN disk ELSE <<>>]

IdleSlot ==
    [pc |-> "idle", kind |-> "none", previousState |-> InitialState,
     token |-> Null, password |-> <<>>, diskBefore |-> <<>>]
\* The slots only name the requests in flight: a new request takes the
\* first free one.  A run that records the states the canonical file has held
\* takes no new request once it has recorded more than MaxDurable of them,
\* and so does a run that records the participants once it has recorded more
\* than MaxKnown of them.
Free(r) == /\ process = "serving"
           /\ req[r].pc = "idle"
           /\ \A q \in Requests : q < r => req[q].pc # "idle"
           /\ Cardinality(durable) <= MaxDurable
           /\ Cardinality(known) <= MaxKnown

\* The responses a run keeps: those of register, shuffle and reopen, or the
\* rejections for a wrong password (401) and for a bad registration (400).
Recorded(kind, status) ==
    \/ "response" \in recording /\ kind \in {"register", "shuffle", "reopen"}
    \/ "rejections" \in recording /\
            (status = 401 \/ (kind = "register" /\ status = 400))

\* A handler returns: its slot is free again and its response goes out.
Respond(r, kind, status) ==
    /\ req' = [req EXCEPT ![r] = IdleSlot]
    /\ response' = IF Recorded(kind, status)
                   THEN [kind |-> kind, status |-> status] ELSE response

\* ------------------------------------------------------------------- clock
\* new Date(): the wall clock is not monotonic, any reading can follow any.
Readings == Times

\* ------------------------------------------------------------ the shuffle
\* Math.floor(Math.random() * (i + 1)) for each i the loop visits; positions
\* are counted from 1 here, so the loop runs i = n down to 2 and j is in 1..i.
RandomChoices(n) == {rnd \in [2..n -> 1..n] : \A i \in 2..n : rnd[i] <= i}

Swap(s, i, j) == [s EXCEPT ![i] = s[j], ![j] = s[i]]

RECURSIVE FisherYates(_, _, _)
FisherYates(shuffled, i, rnd) ==
    IF i <= 1 THEN shuffled
    ELSE FisherYates(Swap(shuffled, i, rnd[i]), i - 1, rnd)

\* Array.from(participants.keys()): the keys in some order.  Fisher-Yates
\* reaches every order from any one, so one order stands for all.
RECURSIVE ListOf(_)
ListOf(S) ==
    IF S = {} THEN <<>>
    ELSE LET t == CHOOSE t \in S : TRUE IN <<t>> \o ListOf(S \ {t})

TokenList(ps) == ListOf(Keys(ps))

\* The guard of the shuffle with 1 for 2.
TooFewBelowOne(tokens) == Len(tokens) < MinShuffle - 1

TooFew(tokens) == Len(tokens) < MinShuffle

\* The receiver two places on instead of one.
ReceiverIndexSkipping(index, n) == ((index + 1) % n) + 1

\* shuffled[(index + 1) % shuffled.length], index counted from 1.
ReceiverIndex(index, n) == (index % n) + 1

Position(shuffled, t) == CHOOSE i \in DOMAIN shuffled : shuffled[i] = t

\* The forEach without the wrap-around: the last giver gets nobody.
AssignedNoWrap(ps, shuffled) ==
    [t \in Keys(ps) |->
        IF Position(shuffled, t) = Len(shuffled) THEN ps[t]
        ELSE [ps[t] EXCEPT !.assignmentToken = shuffled[Position(shuffled, t) + 1]]]

\* The forEach of lines 300-306: every giver gets the next token of the list.
Assigned(ps, shuffled) ==
    [t \in Keys(ps) |->
        [ps[t] EXCEPT !.assignmentToken =
            shuffled[ReceiverIndex(Position(shuffled, t), Len(shuffled))]]]

\* The shuffle without line 457.
LeftAsItWasByShuffle == registrationOpen

\* registrationOpen = false, line 457.
ClosedByShuffle == FALSE

\* The reopen without line 505.
LeftAsItWasByReopen == registrationOpen

\* registrationOpen = true, line 505.
OpenedByReopen == TRUE

\* The handlers without their clearing loop.
ClearedNone(ps) == ps

\* Lines 357-359 and 506-508.
Cleared(ps) == [t \in Keys(ps) |-> [ps[t] EXCEPT !.assignmentToken = Undefined]]

\* ---------------------------------------------------------- the admin gate
\* extractPasswordFromRequest: the trimmed password, or null.
ExtractPassword(body) ==
    IF body.json /\ body.hasField /\ Trim(body.value) # <<>>
    THEN Trim(body.value) ELSE <<>>

\* A gate that only asks for some password.
authorizeAdminAnyPassword(body) == ExtractPassword(body) # <<>>

\* password === config.adminPassword; both have been trimmed (lines 262, 271).
authorizeAdmin(body) == ExtractPassword(body) = AdminPassword

\* What of a participant no route assigns to after the insertion.
Identity(participant) ==
    [token |-> participant.token, name |-> participant.name,
     registeredAt |-> participant.registeredAt]

Inserted(participant, answered) ==
    [who |-> Identity(participant), answered |-> answered]

\* ---------------------------------------------------------------- register
\* The synchronous start of POST /api/register, up to await req.json().
RegisterCheck(r) ==
    /\ Free(r)
    /\ IF ~registrationOpen
       THEN Respond(r, "register", 403)
       ELSE /\ req' = [req EXCEPT ![r] = Slot("body", "register", InitialState, Null)]
            /\ UNCHANGED response
    /\ UNCHANGED <<registry, store, history, process>>

NameOf(body) == IF body.json /\ body.hasField THEN Trim(body.value) ELSE <<>>

BodyRejected(body) ==
    \/ ~body.json
    \/ NameOf(body) = <<>>
    \/ Len(NameOf(body)) > NameLimit

\* The tokens that occur anywhere in the state.
FilesTokens(files) ==
    UNION {IF IsStore(files[i].data)
           THEN {TokenOnLoad(files[i].data.participants[k]) :
                    k \in {k \in DOMAIN files[i].data.participants :
                              KeptOnLoad(files[i].data.participants[k])}}
           ELSE {} : i \in DOMAIN files}
SeenTokens ==
    Keys(participants) \cup issued \cup FilesTokens(disk) \cup FilesTokens(tempFile)
    \cup UNION {Keys(persistQueue[i].payload.participants) : i \in DOMAIN persistQueue}
    \cup UNION {Keys(req[r].previousState.participants) : r \in Requests}
    \cup UNION {FilesTokens(req[r].diskBefore) : r \in Requests}
    \cup ({req[r].token : r \in Requests} \ {Null})

TokenIndex(t) == CHOOSE i \in 1..MaxTokens : TokenNames[i] = t

\* randomToken: any token.  The tokens that occur nowhere in the state are
\* alike, so the first of them stands for all of them.
RandomTokens ==
    {t \in Tokens : t \in SeenTokens \/
        \A u \in Tokens \ SeenTokens : TokenIndex(t) <= TokenIndex(u)}

\* createUniqueToken: the tokens the retry loop can end on.
FreshTokens == RandomTokens \ Keys(participants)

\* The bodies a run sends.  No decision of the server reads a valid name, so
\* one valid name stands for all of them except in a run that tells the
\* participants apart by their names.
RegisterInputs ==
    IF "names" \in recording
    THEN RegisterBodies \cup {Field(OtherName)} ELSE RegisterBodies

\* The rest of the handler, from the parsed body to await persistState().
RegisterBody(r, body) ==
    /\ req[r].pc = "body"
    /\ body \in RegisterInputs
    /\ IF BodyRejected(body)
       THEN /\ Respond(r, "register", 400)
            /\ UNCHANGED <<registry, store, history, process>>
       ELSE \E token \in FreshTokens, registeredAt \in Readings :
            LET inserted == MapSet(participants,
                                [token |-> token, name |-> NameOf(body),
                                 assignmentToken |-> Undefined,
                                 registeredAt |-> registeredAt])
            IN  /\ participants' = Cleared(inserted)
                /\ assignmentsReady' = FALSE
                /\ lastShuffledAt' = NullTime
                /\ registrationOpen' = registrationOpen
                /\ persistQueue' = Enqueued(r, participants', assignmentsReady',
                                            lastShuffledAt', registrationOpen')
                /\ req' = [req EXCEPT ![r] =
                              Slot("waiting", "register", captureState, token)]
                /\ known' = IF "known" \in recording
                             THEN known \cup {Inserted(inserted[token], FALSE)}
                             ELSE known
                /\ UNCHANGED <<writer, tempFile, disk, response, issued,
                               durable, recording, process>>

\* ----------------------------------------------------------------- shuffle
\* A shuffle that does not set lastShuffledAt.
ShuffleUnstamped(r, body) ==
    /\ Free(r)
    /\ IF ~authorizeAdmin(body)
       THEN /\ Respond(r, "shuffle", 401)
            /\ UNCHANGED <<registry, store, history, process>>
       ELSE IF TooFew(TokenList(participants))
       THEN /\ Respond(r, "shuffle", 400)
            /\ UNCHANGED <<registry, store, history, process>>
       ELSE \E rnd \in RandomChoices(Cardinality(Keys(participants))) :
            LET tokens == TokenList(participants)
                shuffled == FisherYates(tokens, Len(tokens), rnd)
            IN  /\ participants' = Assigned(participants, shuffled)
                /\ assignmentsReady' = TRUE
                /\ lastShuffledAt' = lastShuffledAt
                /\ registrationOpen' = ClosedByShuffle
                /\ persistQueue' = Enqueued(r, participants', assignmentsReady',
                                            lastShuffledAt', registrationOpen')
                /\ req' = [req EXCEPT ![r] =
                              [Slot("waiting", "shuffle", captureState, Null)
                                  EXCEPT !.password = ExtractPassword(body)]]
                /\ UNCHANGED <<writer, tempFile, disk, response, history, process>>

\* POST /api/shuffle from the parsed body to await persistState(); nothing
\* of the registry is read before the await of authorizeAdmin.
Shuffle(r, body) ==
    /\ Free(r)
    /\ IF ~authorizeAdmin(body)
       THEN /\ Respond(r, "shuffle", 401)
            /\ UNCHANGED <<registry, store, history, process>>
       ELSE IF TooFew(TokenList(participants))
       THEN /\ Respond(r, "shuffle", 400)
            /\ UNCHANGED <<registry, store, history, process>>
       ELSE \E rnd \in RandomChoices(Cardinality(Keys(participants))), now \in Readings :
            LET tokens == TokenList(participants)
                shuffled == FisherYates(tokens, Len(tokens), rnd)
            IN  /\ participants' = Assigned(participants, shuffled)
                /\ assignmentsReady' = TRUE
                /\ lastShuffledAt' = now
                /\ registrationOpen' = ClosedByShuffle
                /\ persistQueue' = Enqueued(r, participants', assignmentsReady',
                                            lastShuffledAt', registrationOpen')
                /\ req' = [req EXCEPT ![r] =
                              [Slot("waiting", "shuffle", captureState, Null)
                                  EXCEPT !.password = ExtractPassword(body)]]
                /\ UNCHANGED <<writer, tempFile, disk, response, history, process>>

\* ------------------------------------------------------------------ reopen
\* POST /api/registration/reopen from the parsed body to await persistState().
Reopen(r, body) ==
    /\ Free(r)
    /\ IF ~authorizeAdmin(body)
       THEN /\ Respond(r, "reopen", 401)
            /\ UNCHANGED <<registry, store, history, process>>
       ELSE /\ participants' = Cleared(participants)
            /\ assignmentsReady' = FALSE
            /\ lastShuffledAt' = NullTime
            /\ registrationOpen' = OpenedByReopen
            /\ persistQueue' = Enqueued(r, participants', assignmentsReady',
                                        lastShuffledAt', registrationOpen')
            /\ req' = [req EXCEPT ![r] =
                          [Slot("waiting", "reopen", captureState, Null)
                              EXCEPT !.password = ExtractPassword(body)]]
            /\ UNCHANGED <<writer, tempFile, disk, response, history, process>>

\* ------------------------------------------------------ read-only routes
\* The registry as the routes read it.
Memory ==
    [participants |-> participants, assignmentsReady |-> assignmentsReady,
     lastShuffledAt |-> lastShuffledAt, registrationOpen |-> registrationOpen]

\* The registry a process has after loading a snapshot.
MemoryOf(state) ==
    [participants |-> RestoredParticipants(state),
     assignmentsReady |-> state.assignmentsReady,
     lastShuffledAt |-> state.lastShuffledAt,
     registrationOpen |-> state.registrationOpen]

\* The body of GET /api/status.
StatusOf(m) ==
    [registrationOpen |-> m.registrationOpen,
     assignmentsReady |-> m.assignmentsReady,
     participantCount |-> Cardinality(Keys(m.participants)),
     shuffledAt |-> m.lastShuffledAt]

\* A name that is null.
NoName == <<>>

\* The status of GET /api/participant/:token.
LookupStatus(m, token) == IF token \in Keys(m.participants) THEN 200 ELSE 404

\* A lookup that answers with the participant's own name.
LookupOfOwnName(m, token) ==
    LET participant == m.participants[token]
    IN  [token |-> token,
         name |-> participant.name,
         assignmentsReady |-> m.assignmentsReady,
         assignedName |->
            IF m.assignmentsReady /\ participant.assignmentToken # Undefined
            THEN participant.name ELSE NoName,
         participantCount |-> Cardinality(Keys(m.participants)),
         shuffledAt |-> m.lastShuffledAt]

\* The body of GET /api/participant/:token for a token of the map.
LookupOf(m, token) ==
    LET participant == m.participants[token]
        assigned == /\ m.assignmentsReady
                    /\ participant.assignmentToken # Undefined
                    /\ participant.assignmentToken \in Keys(m.participants)
    IN  [token |-> token,
         name |-> participant.name,
         assignmentsReady |-> m.assignmentsReady,
         assignedName |->
            IF assigned THEN m.participants[participant.assignmentToken].name
            ELSE NoName,
         participantCount |-> Cardinality(Keys(m.participants)),
         shuffledAt |-> m.lastShuffledAt]

\* The body of POST /api/participants; the entries without their order.
ListingOf(m) ==
    [participants |->
        {[token |-> m.participants[t].token,
          name |-> m.participants[t].name,
          registeredAt |-> m.participants[t].registeredAt,
          hasAssignment |-> m.participants[t].assignmentToken # Undefined] :
            t \in Keys(m.participants)},
     participantCount |-> Cardinality(Keys(m.participants)),
     assignmentsReady |-> m.assignmentsReady,
     shuffledAt |-> m.lastShuffledAt,
     registrationOpen |-> m.registrationOpen]

\* A response of a route that takes no slot: it reads and answers in one step.
Answer(kind, status) ==
    /\ process = "serving"
    /\ response' = IF Recorded(kind, status)
                   THEN [kind |-> kind, status |-> status] ELSE response
    /\ UNCHANGED <<registry, store, req, history, process>>

GetStatus == Answer("status", 200)

GetParticipant(token) == Answer("participant", LookupStatus(Memory, token))

ListParticipants(body) ==
    IF ~authorizeAdmin(body) THEN Answer("participants", 401)
    ELSE Answer("participants", 200)

\* --------------------------------------------------------- the write queue
\* persistQueue = persistQueue.then(writeOp, writeOp): the writeOps run one
\* after the other in the order they were chained, whatever the outcome of
\* the one before.  The head of persistQueue is the writeOp that is running.
Writing == persistQueue # <<>>
HeadWrite == Head(persistQueue)

\* The awaiting handler resumes in the microtask run that settles its promise,
\* before any other handler can run: the rest of the handler is part of the
\* step that ends its writeOp.
SuccessStatus(kind) == IF kind = "register" THEN 201 ELSE 200

\* The participant a register request inserted, read from its own snapshot.
Registered(r, answered) ==
    Inserted(HeadWrite.payload.participants[req[r].token], answered)

\* A handler that answers with success and rolls back all the same.
ResolvedRollingBack(r) ==
    /\ restoreState(req[r].previousState)
    /\ Respond(r, req[r].kind, SuccessStatus(req[r].kind))
    /\ issued' = IF req[r].kind = "register" /\ "issued" \in recording
                 THEN issued \cup {req[r].token} ELSE issued
    /\ durable' = IF "durable" \in recording
                  THEN durable \cup {HeadWrite.payload} ELSE durable
    /\ known' = IF req[r].kind = "register" /\ "known" \in recording
                THEN (known \ {Registered(r, FALSE)}) \cup {Registered(r, TRUE)}
                ELSE known
    /\ UNCHANGED <<recording, process>>

Resolved(r) ==
    /\ Respond(r, req[r].kind, SuccessStatus(req[r].kind))
    /\ issued' = IF req[r].kind = "register" /\ "issued" \in recording
                 THEN issued \cup {req[r].token} ELSE issued
    /\ durable' = IF "durable" \in recording
                  THEN durable \cup {HeadWrite.payload} ELSE durable
    /\ known' = IF req[r].kind = "register" /\ "known" \in recording
                THEN (known \ {Registered(r, FALSE)}) \cup {Registered(r, TRUE)}
                ELSE known
    /\ UNCHANGED <<registry, recording, process>>

\* A catch block that rolls back and still answers with success.
RejectedAsSuccess(r) ==
    /\ restoreState(req[r].previousState)
    /\ Respond(r, req[r].kind, SuccessStatus(req[r].kind))
    /\ UNCHANGED <<history, process>>

Rejected(r) ==
    /\ restoreState(req[r].previousState)
    /\ Respond(r, req[r].kind, 500)
    /\ UNCHANGED <<history, process>>

\* A writeOp that serializes the registry when it runs.
WriteFileOkLate ==
    /\ Writing /\ writer = "idle"
    /\ tempFile' = <<WholeFile(Stringify(captureState))>>
    /\ writer' = "renaming"
    /\ UNCHANGED <<registry, persistQueue, disk, req, response, history, process>>

\* await writeFile(tempPath, payload, "utf8")
WriteFileOk ==
    /\ Writing /\ writer = "idle"
    /\ tempFile' = <<WholeFile(HeadWrite.payload)>>
    /\ writer' = "renaming"
    /\ UNCHANGED <<registry, persistQueue, disk, req, response, history, process>>

\* A write that goes to the canonical file itself and breaks off halfway.
WriteFileInPlaceFail ==
    /\ Writing /\ writer = "idle"
    /\ disk' = <<PartFile(HeadWrite.payload)>>
    /\ writer' = "cleanup"
    /\ UNCHANGED <<registry, persistQueue, tempFile, req, response, history, process>>

WriteFileFail ==
    /\ Writing /\ writer = "idle"
    /\ tempFile' = <<PartFile(HeadWrite.payload)>>
    /\ writer' = "cleanup"
    /\ UNCHANGED <<registry, persistQueue, disk, req, response, history, process>>

\* await rename(tempPath, PARTICIPANTS_FILE)
RenameOk ==
    /\ Writing /\ writer = "renaming"
    /\ disk' = tempFile
    /\ tempFile' = <<>>
    /\ writer' = "idle"
    /\ persistQueue' = Tail(persistQueue)
    /\ Resolved(HeadWrite.req)

RenameFail ==
    /\ Writing /\ writer = "renaming"
    /\ writer' = "cleanup"
    /\ UNCHANGED <<registry, persistQueue, tempFile, disk, req, response, history, process>>

\* A writeOp that is run again after it has failed, until it succeeds.
RemoveAndRetry ==
    /\ Writing /\ writer = "cleanup"
    /\ tempFile' = <<>>
    /\ writer' = "idle"
    /\ UNCHANGED <<registry, persistQueue, disk, req, response, history, process>>

\* A chain built with then(writeOp) alone: after a failed write the writeOps
\* queued behind it never run.
RemoveSkippingQueued ==
    /\ Writing /\ writer = "cleanup"
    /\ tempFile' = <<>>
    /\ writer' = "idle"
    /\ persistQueue' = <<>>
    /\ Rejected(HeadWrite.req)
    /\ UNCHANGED disk

\* await rm(tempPath, { force: true }).catch(() => {}); throw error
Remove ==
    /\ Writing /\ writer = "cleanup"
    /\ tempFile' = <<>>
    /\ writer' = "idle"
    /\ persistQueue' = Tail(persistQueue)
    /\ Rejected(HeadWrite.req)
    /\ UNCHANGED disk

\* The participants a load has put in the Map, none of them answered by the
\* process that loads.
Loaded ==
    IF "known" \in recording
    THEN {Inserted(participants'[t], FALSE) : t \in Keys(participants')}
    ELSE known

\* ----------------------------------------------------------------- restart
\* The process ends at any point, with whatever is in flight, and is started
\* again: lines 35-39 and the startup of lines 312-320.  The requests in
\* flight get no response; the canonical file is what the new process finds.
Restart ==
    /\ process = "serving"
    /\ Loadable(disk)
    /\ \E now \in Readings : loadPersistedState(disk, now)
    /\ persistQueue' = <<>>
    /\ writer' = "idle"
    /\ tempFile' = <<>>
    /\ req' = [r \in Requests |-> IdleSlot]
    /\ known' = Loaded
    /\ UNCHANGED <<disk, response, issued, durable, recording, process>>

\* ----------------------------------------------------------------- startup
\* Lines 312-320 with a config.json that loads: loadPersistedState either
\* returns, and line 322 starts the server, or throws, and line 319 ends the
\* process.
StartupServingAnyway ==
    /\ process = "starting"
    /\ IF Loadable(disk)
       THEN \E now \in Readings : loadPersistedState(disk, now)
       ELSE UNCHANGED registry
    /\ process' = "serving"
    /\ known' = Loaded
    /\ UNCHANGED <<store, req, response, issued, durable, recording>>

Startup ==
    /\ process = "starting"
    /\ IF Loadable(disk)
       THEN /\ \E now \in Readings : loadPersistedState(disk, now)
            /\ process' = "serving"
       ELSE /\ process' = "exited"
            /\ UNCHANGED registry
    /\ known' = Loaded
    /\ UNCHANGED <<store, req, response, issued, durable, recording>>

\* The store files a process is started on: none, the text of a snapshot
\* cut short, JSON that is no store (null, an object without participants,
\* an object whose participants is null), and stores with entries of every
\* kind the load tells apart and with or without the three flags.
StoreEntry(token, name, registeredAt, assignmentToken) ==
    [token |-> token, name |-> name, registeredAt |-> registeredAt,
     assignmentToken |-> assignmentToken]
Array(entries) ==
    [k \in {ArrayKeys[Len(TokenNames) + i] : i \in DOMAIN entries} |->
        entries[ArrayIndex(k) - Len(TokenNames)]]
StoreFiles ==
    LET plain == StoreEntry("t1", <<"A">>, 1, Missing)
        untimed == StoreEntry("t2", <<"A">>, NullTime, "")
        again == StoreEntry("t1", <<"A">>, NullTime, Null)
        tokenMissing == StoreEntry(Missing, <<"A">>, 1, Null)
        tokenEmpty == StoreEntry("", <<"A">>, 1, Null)
        tokenNull == StoreEntry(Null, <<"A">>, 1, Null)
        nameMissing == StoreEntry("t2", <<Missing>>, 1, Null)
        nameEmpty == StoreEntry("t2", <<>>, 1, Null)
        nameNull == StoreEntry("t1", <<Null>>, 1, Null)
        closed == [assignmentsReady |-> FALSE, lastShuffledAt |-> NullTime,
                   registrationOpen |-> FALSE]
    IN  {<<>>,
         <<PartFile(InitialState)>>,
         <<WholeFile(JsonScalar(Null))>>,
         <<WholeFile(closed)>>,
         <<WholeFile([participants |-> JsonScalar(Null)])>>,
         <<WholeFile([participants |->
                        Array(<<plain, tokenMissing, JsonScalar(Null), nameEmpty,
                                tokenEmpty, again>>)])>>,
         <<WholeFile([participants |-> Array(<<untimed, nameMissing>>),
                      assignmentsReady |-> FALSE, lastShuffledAt |-> NullTime,
                      registrationOpen |-> FALSE])>>,
         <<WholeFile([participants |-> Array(<<tokenNull, nameNull>>)])>>}

\* ------------------------------------------------------- the specification
\* The server after startup with no config problem and no participants.json.
\* response, issued, durable and diskBefore are records of what has happened
\* in a run, kept for the properties that speak of it; they change nothing the
\* server does.  A run keeps none of them (Spec), the last response of a
\* changing route (SpecResponses), the last rejection (SpecRejections), the
\* tokens handed out (SpecIssued), the file before each change (SpecDisk) or
\* the states the file has held (SpecDurable), or the participants inserted,
\* registering under two names (SpecKnown).
Started(kept) ==
    /\ participants = EmptyMap
    /\ assignmentsReady = FALSE
    /\ lastShuffledAt = NullTime
    /\ registrationOpen = TRUE
    /\ persistQueue = <<>>
    /\ writer = "idle"
    /\ tempFile = <<>>
    /\ disk = <<>>
    /\ req = [r \in Requests |-> IdleSlot]
    /\ response = [kind |-> "none", status |-> 0]
    /\ issued = {}
    /\ durable = {InitialState}
    /\ known = {}
    /\ process = "serving"
    /\ recording = kept

Init == Started({})
InitResponses == Started({"response"})
InitIssued == Started({"issued"})
InitDisk == Started({"disk"})
InitDurable == Started({"durable"})
InitRejections == Started({"rejections"})
InitKnown == Started({"known", "names"})

Next ==
    \/ \E r \in Requests : RegisterCheck(r)
    \/ \E r \in Requests, body \in RegisterBodies \cup {Field(OtherName)} :
           RegisterBody(r, body)
    \/ \E r \in Requests, body \in PasswordBodies : Shuffle(r, body)
    \/ \E r \in Requests, body \in PasswordBodies : Reopen(r, body)
    \/ WriteFileOk
    \/ WriteFileFail
    \/ RenameOk
    \/ RenameFail
    \/ Remove
    \/ Restart
    \/ GetStatus
    \/ \E token \in Tokens : GetParticipant(token)
    \/ \E body \in PasswordBodies : ListParticipants(body)

Spec == Init /\ [][Next]_vars
SpecResponses == InitResponses /\ [][Next]_vars
SpecIssued == InitIssued /\ [][Next]_vars
SpecDisk == InitDisk /\ [][Next]_vars

SpecDurable == InitDurable /\ [][Next]_vars
SpecRejections == InitRejections /\ [][Next]_vars
SpecKnown == InitKnown /\ [][Next]_vars

\* The server on a storage whose writeFile and rename never fail: the catch
\* blocks of lines 228-231 and of the handlers are never entered.
NextNoFailure ==
    \/ \E r \in Requests : RegisterCheck(r)
    \/ \E r \in Requests, body \in RegisterBodies \cup {Field(OtherName)} :
           RegisterBody(r, body)
    \/ \E r \in Requests, body \in PasswordBodies : Shuffle(r, body)
    \/ \E r \in Requests, body \in PasswordBodies : Reopen(r, body)
    \/ WriteFileOk
    \/ RenameOk
    \/ Restart
    \/ GetStatus
    \/ \E token \in Tokens : GetParticipant(token)
    \/ \E body \in PasswordBodies : ListParticipants(body)

SpecNoFailure == Init /\ [][NextNoFailure]_vars

\* The process from its start, on any of the store files: the module state of
\* lines 35-39, then the startup, then the routes.
InitStartup ==
    /\ participants = EmptyMap
    /\ assignmentsReady = FALSE
    /\ lastShuffledAt = NullTime
    /\ registrationOpen = TRUE
    /\ persistQueue = <<>>
    /\ writer = "idle"
    /\ tempFile = <<>>
    /\ disk \in StoreFiles
    /\ req = [r \in Requests |-> IdleSlot]
    /\ response = [kind |-> "none", status |-> 0]
    /\ issued = {}
    /\ durable = {InitialState}
    /\ known = {}
    /\ process = "starting"
    /\ recording = {"known"}

NextStartup == Startup \/ Next

SpecStartup == InitStartup /\ [][NextStartup]_vars

\* The event loop runs every continuation that is ready, and every writeFile,
\* rename and rm call returns, with success or with an error.
Fairness ==
    /\ WF_vars(WriteFileOk \/ WriteFileFail)
    /\ WF_vars(RenameOk \/ RenameFail)
    /\ WF_vars(Remove)
SpecLive == Init /\ [][Next]_vars /\ Fairness

\* ---------------------------------------- the shuffle on its own registries
\* Registries of every size up to MaxShuffleTokens, never shuffled, and the
\* shuffle handler alone applied to them.
Unshuffled(S) ==
    [t \in S |-> [token |-> t, name |-> <<"A">>, assignmentToken |-> Undefined,
                  registeredAt |-> 1]]

InitShuffle ==
    /\ participants \in {Unshuffled(S) : S \in SUBSET TokenSpace(MaxShuffleTokens)}
    /\ assignmentsReady = FALSE
    /\ lastShuffledAt = NullTime
    /\ registrationOpen = TRUE
    /\ persistQueue = <<>>
    /\ writer = "idle"
    /\ tempFile = <<>>
    /\ disk = <<>>
    /\ req = [r \in Requests |-> IdleSlot]
    /\ response = [kind |-> "none", status |-> 0]
    /\ issued = {}
    /\ durable = {InitialState}
    /\ known = {}
    /\ process = "serving"
    /\ recording = {"response"}

NextShuffle == \E r \in Requests, body \in PasswordBodies : Shuffle(r, body)

SpecShuffle == InitShuffle /\ [][NextShuffle]_vars

\* ------------------------------------------------------------- properties
\* Steps of the handlers, told by what they do to the slot of the request.
RegisterActs(r) == req[r].pc = "body" /\ req'[r].pc = "waiting"
ShuffleActs(r) ==
    req[r].pc = "idle" /\ req'[r].pc = "waiting" /\ req'[r].kind = "shuffle"
ReopenActs(r) ==
    req[r].pc = "idle" /\ req'[r].pc = "waiting" /\ req'[r].kind = "reopen"
\* A request in flight ends with the step that ends its write, unless the
\* process itself ends.
ReturnsSuccess(r) ==
    req[r].pc = "waiting" /\ req'[r].pc = "idle" /\ writer = "renaming" /\ ~Restart
ReturnsFailure(r) ==
    req[r].pc = "waiting" /\ req'[r].pc = "idle" /\ writer = "cleanup" /\ ~Restart

Size(ps) == Cardinality(Keys(ps))

\* The participant reached from t by following k assignmentToken links.
RECURSIVE Walk(_, _, _)
Walk(ps, t, k) == IF k = 0 THEN t ELSE Walk(ps, ps[t].assignmentToken, k - 1)

AllAssigned(ps) == \A t \in Keys(ps) : ps[t].assignmentToken \in Keys(ps)
NoSelfAssignment(ps) == \A t \in Keys(ps) : ps[t].assignmentToken # t
OneCycle(ps) ==
    /\ AllAssigned(ps)
    /\ \A t \in Keys(ps) :
        /\ {Walk(ps, t, k) : k \in 1..Size(ps)} = Keys(ps)
        /\ Walk(ps, t, Size(ps)) = t

\* What participants.json holds for a server that starts from it.
DiskState == IF disk = <<>> THEN InitialState ELSE disk[1].data

\* C1: registrationOpen and assignmentsReady are never both true.
C1_NeverOpenAndReady == ~(registrationOpen /\ assignmentsReady)

\* C1 witness: a rollback has brought back a shuffled, closed registry while
\* the file holds an open one.
C1_Witness ==
    /\ assignmentsReady /\ ~registrationOpen /\ ~Writing
    /\ disk # <<>> /\ disk[1].data.registrationOpen

\* C2: while assignmentsReady is true every participant has an assignment, no
\* participant is assigned to itself and the assignments form one cycle through
\* all participants.
C2_ReadyMeansOneCycle ==
    assignmentsReady =>
        /\ \A t \in Keys(participants) : participants[t].assignmentToken # Undefined
        /\ NoSelfAssignment(participants)
        /\ OneCycle(participants)

\* C2 witness: a cycle of three restored by a rollback (the file holds none).
C2_Witness ==
    /\ assignmentsReady /\ Size(participants) = 3 /\ ~Writing
    /\ ~DiskState.assignmentsReady

\* C3: no participant is inserted at an instant when registrationOpen is false.
C3_NoInsertWhileClosed ==
    [][\A r \in Requests : RegisterActs(r) => registrationOpen]_vars

\* C4 as claimed: when a request returns after its write failed, the registry
\* equals its previousState and the canonical file is what it was before the
\* request changed the registry.
C4_FailureLeavesFileAsBeforeMutation ==
    [][\A r \in Requests : ReturnsFailure(r) =>
            /\ captureState' = req[r].previousState
            /\ disk' = req[r].diskBefore]_vars

\* C4 as amended: when a request returns after its write failed, the registry
\* equals its previousState at that instant, and no step of a failed write
\* attempt changes the canonical file: the file changes only in the step that
\* ends a write attempt with success.
C4_FailureRestoresSnapshot ==
    [][/\ \A r \in Requests : ReturnsFailure(r) =>
            /\ captureState' = req[r].previousState
            /\ disk' = disk
       /\ disk' # disk => \E r \in Requests : ReturnsSuccess(r)]_vars

\* C4 witness: every write has settled and a rollback has left the registry
\* with fewer participants than the file.
C4_Witness ==
    /\ ~Writing /\ tempFile = <<>>
    /\ Size(participants) < Size(DiskState.participants)

\* C5: whenever no write is pending the registry equals the canonical file.
C5_QuiescentMatchesDisk == ~Writing => captureState = DiskState

\* C6: a token returned by a successful registration stays in the registry.
C6_IssuedStay == issued \subseteq Keys(participants)

\* C7: no successful registration returns a token that a successful
\* registration has returned before.
C7_TokensIssuedOnce ==
    [][\A r \in Requests :
        ReturnsSuccess(r) /\ req[r].kind = "register" => req[r].token \notin issued]_vars

\* C8: a shuffle of n >= 2 tokens, whatever the random choices, assigns nobody
\* to itself and links all n participants in one cycle.
C8_ShuffleIsOneCycle ==
    (\E r \in Requests : req[r].pc = "waiting") =>
        /\ Size(participants) >= MinShuffle
        /\ NoSelfAssignment(participants)
        /\ OneCycle(participants)

\* C8 witness: four participants have been shuffled.
C8_Witness ==
    /\ \E r \in Requests : req[r].pc = "waiting"
    /\ Size(participants) = 4 /\ assignmentsReady

\* C9: the step of a shuffle sets every assignmentToken, assignmentsReady,
\* lastShuffledAt and closes registration, all at once, and keeps the
\* participants (token, name, registeredAt), whatever the state before.
C9_ShuffleStep ==
    [][\A r \in Requests : ShuffleActs(r) =>
        /\ Keys(participants') = Keys(participants)
        /\ \A t \in Keys(participants) :
            /\ participants'[t].assignmentToken \in Keys(participants)
            /\ participants'[t].token = participants[t].token
            /\ participants'[t].name = participants[t].name
            /\ participants'[t].registeredAt = participants[t].registeredAt
        /\ assignmentsReady' /\ lastShuffledAt' # NullTime /\ ~registrationOpen']_vars

\* C9 witness: a shuffle over assignments that already existed is in flight.
C9_Witness ==
    \E r \in Requests :
        /\ req[r].pc = "waiting" /\ req[r].kind = "shuffle"
        /\ req[r].previousState.assignmentsReady
        /\ assignmentsReady /\ ~registrationOpen

\* C10: with fewer than two participants no shuffle takes effect, and the
\* shuffle rejected for it (400) changes neither the registry nor the store.
C10_ShuffleNeedsTwo ==
    [][/\ Size(participants) < MinShuffle => \A r \in Requests : ~ShuffleActs(r)
       /\ (response' # response /\ response' = [kind |-> "shuffle", status |-> 400])
            => /\ Size(participants) < MinShuffle
               /\ UNCHANGED <<registry, store>>]_vars

\* C10 witness: a shuffle of a single participant has been rejected.
C10_Witness ==
    /\ response = [kind |-> "shuffle", status |-> 400]
    /\ Size(participants) = 1 /\ registrationOpen /\ ~assignmentsReady
    /\ persistQueue = <<>>

\* C11: the step of a registration that inserts the new participant also
\* leaves every assignmentToken unset and assignmentsReady false, and the
\* snapshot it queues for writing is the registry after that step: it holds
\* the new participant and no assignment.
C11_RegisterClears ==
    [][\A r \in Requests : RegisterActs(r) =>
        /\ req'[r].token \in Keys(participants') \ Keys(participants)
        /\ \A t \in Keys(participants') : participants'[t].assignmentToken = Undefined
        /\ ~assignmentsReady'
        /\ persistQueue' = Append(persistQueue, [req |-> r, payload |-> captureState'])
        /\ \A t \in Keys(captureState'.participants) :
              captureState'.participants[t].assignmentToken = Null]_vars

\* C11 witness: a registration in flight has inserted its participant into a
\* registry that was shuffled, and the registry holds no assignment now.
C11_Witness ==
    \E r \in Requests :
        /\ req[r].pc = "waiting" /\ req[r].kind = "register"
        /\ req[r].previousState.assignmentsReady
        /\ req[r].token \in Keys(participants)
        /\ ~assignmentsReady
        /\ \A t \in Keys(participants) : participants[t].assignmentToken = Undefined

\* The participants of a snapshot without their assignments.
Identities(state) ==
    {<<p.token, p.name, p.registeredAt>> :
        p \in {state.participants[t] : t \in Keys(state.participants)}}

\* An open registry with nothing shuffled.
OpenAndUnassigned(state) ==
    /\ state.registrationOpen /\ ~state.assignmentsReady
    /\ state.lastShuffledAt = NullTime
    /\ \A t \in Keys(state.participants) : state.participants[t].assignmentToken = Null

\* C12: the step of an authorized reopen leaves, whatever the state before,
\* registrationOpen true, assignmentsReady false, lastShuffledAt null, no
\* assignmentToken and the same participants (token, name, registeredAt); and
\* when its write succeeds the canonical file holds exactly that state, with
\* the participants the registry had before the call.
C12_ReopenResult ==
    [][\A r \in Requests :
        /\ ReopenActs(r) =>
            /\ OpenAndUnassigned(captureState')
            /\ Identities(captureState') = Identities(captureState)
            /\ \A t \in Keys(participants') : participants'[t].assignmentToken = Undefined
        /\ ReturnsSuccess(r) /\ req[r].kind = "reopen" =>
            /\ disk' # <<>> /\ disk'[1].complete
            /\ OpenAndUnassigned(disk'[1].data)
            /\ Identities(disk'[1].data) = Identities(req[r].previousState)]_vars

\* C12 witness: a reopen of a shuffled, closed registry of two or more
\* participants is in flight and the registry is open and unassigned.
C12_Witness ==
    \E r \in Requests :
        /\ req[r].pc = "waiting" /\ req[r].kind = "reopen"
        /\ req[r].previousState.assignmentsReady
        /\ ~req[r].previousState.registrationOpen
        /\ Size(participants) >= MinShuffle
        /\ OpenAndUnassigned(captureState)

\* C13: a reopen of a registry that is already open and unassigned leaves the
\* registry as it is; every reopen ends in such a registry, so a second
\* reopen changes nothing the first has left; and every reopen, also one that
\* changes nothing, queues exactly one write.
C13_ReopenIdempotent ==
    [][\A r \in Requests : ReopenActs(r) =>
        /\ OpenAndUnassigned(captureState) => UNCHANGED registry
        /\ OpenAndUnassigned(captureState')
        /\ Len(persistQueue') = Len(persistQueue) + 1
        /\ persistQueue'[Len(persistQueue')].req = r]_vars

\* C13 witness: two reopens in flight, the second on the registry the first
\* has left, each with its own queued write.
C13_Witness ==
    /\ \A r \in Requests : req[r].pc = "waiting" /\ req[r].kind = "reopen"
    /\ Len(persistQueue) = MaxRequests
    /\ \E r \in Requests :
          /\ ~OpenAndUnassigned(req[r].previousState)
          /\ \E q \in Requests \ {r} : req[q].previousState = captureState

\* C14: for every reachable registry, the snapshot captureState takes of it,
\* written to the file as JSON, parsed and sanitized by loadPersistedState and
\* put back by restoreState gives the same participants (token, name,
\* assignmentToken, registeredAt) and the same three flags, whenever the load
\* happens.
C14_RoundTrip ==
    \A now \in Readings :
        LET file == WholeFile(Stringify(captureState))
            sanitized == Sanitized(file.data, now)
        IN  /\ RestoredParticipants(sanitized) = participants
            /\ sanitized.assignmentsReady = assignmentsReady
            /\ sanitized.lastShuffledAt = lastShuffledAt
            /\ sanitized.registrationOpen = registrationOpen

\* C14 witness: a shuffled registry of three is in the canonical file and in
\* memory, as a restart leaves it.
C14_Witness ==
    /\ assignmentsReady /\ ~registrationOpen /\ Size(participants) = 3
    /\ lastShuffledAt # NullTime
    /\ disk = <<WholeFile(Stringify(captureState))>>
    /\ ~Writing /\ \A r \in Requests : req[r].pc = "idle"

\* C15: the canonical file is at every instant absent or a complete snapshot;
\* it changes only in the step that renames a completely written temporary
\* file onto it, and then holds the snapshot of that write; a failed write of
\* the temporary file, a failed rename, the cleanup after either and a restart
\* leave it as the last successful rename left it.
C15_CanonicalFileWhole ==
    /\ [](disk # <<>> => disk[1].complete)
    /\ [][/\ disk' # disk =>
               /\ writer = "renaming" /\ tempFile = <<WholeFile(HeadWrite.payload)>>
               /\ disk' = <<WholeFile(HeadWrite.payload)>>
               /\ persistQueue' = Tail(persistQueue)
          /\ (writer' = "cleanup" \/ writer = "cleanup") => disk' = disk]_vars

\* C15 witness: a write attempt has failed and is being cleaned up while the
\* canonical file holds the complete snapshot of an earlier write, which is
\* not the snapshot of the failed one.
C15_Witness ==
    /\ writer = "cleanup" /\ tempFile # <<>>
    /\ disk # <<>> /\ disk[1].complete
    /\ disk[1].data # tempFile[1].data

\* C16: while the process runs, the write queue changes only by a handler's
\* persistState appending one write with the snapshot of that instant, or by
\* the write at its head leaving after its own attempt has ended (in success
\* or in failure); only the write at the head executes, so at most one write
\* executes at a time; the canonical file is replaced by the snapshot of the
\* write at the head, hence in the order the snapshots were captured; a
\* failed write removes nothing but itself from the queue.
C16_WritesInOrder ==
    /\ [](tempFile # <<>> => Writing /\ tempFile[1].data = HeadWrite.payload)
    /\ [](writer # "idle" => Writing)
    /\ [][/\ persistQueue' # persistQueue =>
               \/ \E r \in Requests :
                     /\ RegisterActs(r) \/ ShuffleActs(r) \/ ReopenActs(r)
                     /\ persistQueue' =
                           Append(persistQueue, [req |-> r, payload |-> captureState'])
               \/ /\ Writing /\ persistQueue' = Tail(persistQueue)
                  /\ writer \in {"renaming", "cleanup"} /\ writer' = "idle"
                  /\ tempFile # <<>> /\ tempFile[1].data = HeadWrite.payload
               \/ Restart
          /\ \A r \in Requests :
               RegisterActs(r) \/ ShuffleActs(r) \/ ReopenActs(r) =>
                   Len(persistQueue') = Len(persistQueue) + 1
          /\ disk' # disk => disk' = <<WholeFile(HeadWrite.payload)>>]_vars

\* C16 witness: the write at the head of the queue has failed and is being
\* cleaned up while a later write waits behind it.
C16_Witness ==
    /\ Len(persistQueue) = 2 /\ writer = "cleanup"
    /\ persistQueue[1].payload # persistQueue[2].payload

\* The writes in the queue that request r waits for.
QueuedFor(r) == {i \in DOMAIN persistQueue : persistQueue[i].req = r}

\* C17: a request that has changed the registry answers only in the step that
\* ends its own write: with success (200, 201) in the step that renames its
\* own snapshot onto the canonical file, with failure (500) in the step that
\* ends its own failed attempt, which leaves the file alone; as long as its
\* write is queued or executing it has not answered.  (A restart ends the
\* requests in flight without an answer.)
C17_AnswerAfterOwnWrite ==
    /\ [](\A r \in Requests :
            IF req[r].pc = "waiting" THEN Cardinality(QueuedFor(r)) = 1
            ELSE QueuedFor(r) = {})
    /\ [][\A r \in Requests : req[r].pc = "waiting" /\ req'[r].pc = "idle" =>
            \/ Restart
            \/ /\ Writing /\ HeadWrite.req = r
               /\ response'.kind = req[r].kind
               /\ \/ /\ response'.status = SuccessStatus(req[r].kind)
                     /\ writer = "renaming"
                     /\ disk' = <<WholeFile(HeadWrite.payload)>>
                  \/ /\ response'.status = 500
                     /\ writer = "cleanup"
                     /\ disk' = disk]_vars

\* C17 witness: a request has been answered 500 after its write failed, the
\* canonical file holds the snapshot of a request answered with success, and
\* another request still waits for its write.
C17_Witness ==
    /\ response.status = 500
    /\ disk # <<>>
    /\ \E r \in Requests : req[r].pc = "waiting" /\ QueuedFor(r) # {}

\* C18: what a read-only route returns (status, the lookup of a participant,
\* the listing) is, whenever the read happens, what it would return on a
\* state that the canonical file has held or that was loaded at startup.
C18_ReadsSeeDurable ==
    /\ \E d \in durable : StatusOf(Memory) = StatusOf(MemoryOf(d))
    /\ \E d \in durable : ListingOf(Memory) = ListingOf(MemoryOf(d))
    /\ \A token \in Keys(participants) :
          \E d \in durable :
              /\ token \in Keys(d.participants)
              /\ LookupOf(Memory, token) = LookupOf(MemoryOf(d), token)

\* C19: at every instant after a registration has returned success with
\* token T, a process that ends there and starts again loads a registry that
\* holds a participant with token T.
C19_IssuedSurviveRestart ==
    \A now \in Readings :
        issued \subseteq Keys(MemoryOf(Sanitized(DiskState, now)).participants)

\* C20: a shuffle, reopen or listing answered 401 and a registration answered
\* 400 change neither the registry (participants and the three flags) nor the
\* store, so they queue no write; a shuffle or a reopen changes the registry
\* only when the password extracted from its request equals the configured
\* one; and a registration inserts only a trimmed name of 1 to NameLimit
\* characters.
C20_RejectedChangesNothing ==
    [][/\ (response' # response /\ response'.status = 401) =>
            /\ response'.kind \in {"shuffle", "reopen", "participants"}
            /\ UNCHANGED <<registry, store>>
       /\ (response' # response /\ response' = [kind |-> "register", status |-> 400]) =>
            UNCHANGED <<registry, store>>
       /\ \A r \in Requests :
            /\ ShuffleActs(r) \/ ReopenActs(r) => req'[r].password = AdminPassword
            /\ RegisterActs(r) =>
                LET name == participants'[req'[r].token].name
                IN  name # <<>> /\ Len(name) <= NameLimit /\ Trim(name) = name
       /\ (registry' # registry /\ ~Restart) =>
            \E r \in Requests :
                \/ ShuffleActs(r) \/ ReopenActs(r) \/ RegisterActs(r)
                \/ ReturnsFailure(r)]_vars

\* C20 witness: a reopen has been answered 401 on a shuffled, closed
\* registry, which is still shuffled and closed, with no write queued.
C20_Witness ==
    /\ response = [kind |-> "reopen", status |-> 401]
    /\ assignmentsReady /\ ~registrationOpen
    /\ persistQueue = <<>> /\ disk # <<>> /\ DiskState = captureState

\* C29: lastShuffledAt is non-null exactly when assignmentsReady is true.
C29_ShuffledAtIffReady == (lastShuffledAt # NullTime) <=> assignmentsReady

\* C29 witness: a rollback has brought back assignmentsReady and
\* lastShuffledAt together while the file holds a registry never shuffled.
C29_Witness ==
    /\ assignmentsReady /\ lastShuffledAt # NullTime /\ ~Writing
    /\ disk # <<>> /\ DiskState.lastShuffledAt = NullTime
    /\ ~DiskState.assignmentsReady

\* C30: while assignmentsReady is false no participant has an
\* assignmentToken, and every assignmentToken there is names a participant
\* of the registry.
C30_NoDanglingAssignment ==
    /\ ~assignmentsReady =>
          \A t \in Keys(participants) : participants[t].assignmentToken = Undefined
    /\ \A t \in Keys(participants) :
          participants[t].assignmentToken # Undefined =>
              participants[t].assignmentToken \in Keys(participants)

\* C30 witness: a rollback has removed a participant that the file holds and
\* has brought back the assignments among the two that stay.
C30_Witness ==
    /\ ~Writing /\ assignmentsReady
    /\ Size(participants) = 2 /\ Size(DiskState.participants) = 3
    /\ \A t \in Keys(participants) : participants[t].assignmentToken \in Keys(participants)

\* The payload of the write that request r waits for.
PayloadIn(queue, r) ==
    LET i == CHOOSE i \in DOMAIN queue : queue[i].req = r IN queue[i].payload

\* C27: the payload of a write is the registry as it was in the step that
\* called persistState; as long as the request waits, whatever other
\* requests change or roll back, its payload and its previousState stay what
\* they were; and what is written to the temporary file and renamed onto the
\* canonical file is that payload.
C27_PayloadIsStateAtCall ==
    [][\A r \in Requests :
        /\ RegisterActs(r) \/ ShuffleActs(r) \/ ReopenActs(r) =>
            /\ PayloadIn(persistQueue', r) = captureState'
            /\ req'[r].previousState = captureState
        /\ req[r].pc = "waiting" /\ req'[r].pc = "waiting" =>
            /\ PayloadIn(persistQueue', r) = PayloadIn(persistQueue, r)
            /\ req'[r].previousState = req[r].previousState
            /\ (tempFile' # tempFile /\ tempFile' # <<>> /\ HeadWrite.req = r) =>
                  tempFile'[1].data = PayloadIn(persistQueue, r)
        /\ ReturnsSuccess(r) => disk' = <<WholeFile(PayloadIn(persistQueue, r))>>]_vars

\* C27 witness: the rollback of another request has changed the registry
\* since the only queued write was called; that write is under way with its
\* payload, which is neither the registry nor its request's previousState.
C27_Witness ==
    /\ writer = "renaming" /\ Len(persistQueue) = 1
    /\ tempFile = <<WholeFile(HeadWrite.payload)>>
    /\ HeadWrite.payload # captureState
    /\ req[HeadWrite.req].previousState # captureState
    /\ req[HeadWrite.req].previousState # HeadWrite.payload

\* C28: a request that has changed the registry ends with the outcome of its
\* own write: when its own write is renamed into place it answers with
\* success and leaves the registry as it is, also after an earlier write has
\* failed; when its own write fails it answers 500 and the registry is its
\* previousState again.
C28_OwnOutcomeOnly ==
    [][\A r \in Requests :
        (req[r].pc = "waiting" /\ req'[r].pc = "idle" /\ ~Restart) =>
            /\ Writing /\ HeadWrite.req = r
            /\ IF writer = "renaming"
               THEN /\ response' = [kind |-> req[r].kind,
                                    status |-> SuccessStatus(req[r].kind)]
                    /\ UNCHANGED registry
               ELSE /\ writer = "cleanup"
                    /\ response' = [kind |-> req[r].kind, status |-> 500]
                    /\ captureState' = req[r].previousState]_vars

\* C28 witness: a request has answered with success after the write of an
\* earlier request had failed and rolled the registry back: the file holds
\* the later snapshot, the registry the earlier previousState.
C28_Witness ==
    /\ response.status \in {200, 201}
    /\ ~Writing /\ disk # <<>>
    /\ captureState # DiskState
    /\ \A r \in Requests : req[r].pc = "idle"

\* C26: every request that has called persistState and waits for its write
\* gets its outcome in the end, however many writes are queued before it and
\* however many of them fail.
C26_EveryRequestReturns ==
    \A r \in Requests : (req[r].pc = "waiting") ~> (req[r].pc = "idle")

\* C26 witness: every request slot waits for a write, and the write at the
\* head of the queue has failed in its rename.
C26_Witness ==
    /\ \A r \in Requests : req[r].pc = "waiting"
    /\ Len(persistQueue) = MaxRequests
    /\ writer = "cleanup" /\ tempFile # <<>> /\ tempFile[1].complete

\* C21: a participant in the Map whose token a 201 response of this process
\* has returned has the name and the registeredAt it was registered with.
C21_IdentityKept ==
    \A t \in Keys(participants) : \A k \in known :
        k.answered /\ k.who.token = t => k.who = Identity(participants[t])

\* C22: the lookup of a token of the Map answers 200, with the name of the
\* participant the token is assigned to, another participant of the Map, when
\* assignmentsReady is true, and with a null assignedName when it is false;
\* the lookup of any other token answers 404.
C22_LookupAnswers ==
    \A T \in Tokens :
        IF T \in Keys(participants)
        THEN LET answer == LookupOf(Memory, T)
                 given == participants[T].assignmentToken
             IN  /\ LookupStatus(Memory, T) = 200
                 /\ answer.assignmentsReady = assignmentsReady
                 /\ IF assignmentsReady
                    THEN /\ given \in Keys(participants) \ {T}
                         /\ answer.assignedName = participants[given].name
                         /\ answer.assignedName # NoName
                    ELSE answer.assignedName = NoName
        ELSE LookupStatus(Memory, T) = 404

\* C22 witness: the assignments are ready and the lookup of a participant
\* named A answers with the other name, while a token stays unregistered.
C22_Witness ==
    /\ assignmentsReady
    /\ Keys(participants) # Tokens
    /\ \E T \in Keys(participants) :
           /\ participants[T].name = <<"A">>
           /\ LookupOf(Memory, T).assignedName = OtherName

\* C23: a process started on a store file that is present and is no JSON
\* object with a participants array ends without having changed the
\* registry, the file, the queue or a request, and before the startup is
\* over and after the process has ended no step is taken but the startup.
C23_BadStoreNeverServes ==
    [][/\ (process = "starting" /\ disk # <<>> /\ ~Loadable(disk)) =>
            /\ process' = "exited"
            /\ UNCHANGED <<registry, store, req, response>>
       /\ process = "starting" => UNCHANGED <<store, req, response>>
       /\ process = "exited" => UNCHANGED vars]_vars

\* C23 witness: the process has ended on a file that holds JSON.
C23_Witness == process = "exited" /\ disk # <<>> /\ disk[1].complete

\* C24: a process started without a store file serves, with an empty Map,
\* assignmentsReady false, lastShuffledAt null and registrationOpen true.
C24_AbsentStoreServesEmpty ==
    [][(process = "starting" /\ disk = <<>>) =>
            /\ process' = "serving"
            /\ participants' = EmptyMap
            /\ assignmentsReady' = FALSE
            /\ lastShuffledAt' = NullTime
            /\ registrationOpen' = TRUE
            /\ disk' = <<>>]_vars

\* C24 witness: the process started without a store file has taken its first
\* registration request, on the empty registry.
C24_Witness ==
    /\ process = "serving" /\ disk = <<>> /\ known = {}
    /\ participants = EmptyMap /\ registrationOpen /\ ~assignmentsReady
    /\ req[1].pc = "body"

\* An entry of a store file that has a token and a name: strings that are
\* not empty.
HasTokenAndName(entry) ==
    IF IsScalar(entry) THEN FALSE
    ELSE /\ entry.token \notin {Missing, Null, ""}
         /\ entry.name \notin {<<Missing>>, <<Null>>, <<>>}

\* C25: a process started on a store serves, with one participant for each
\* token of the entries that have a token and a name and with no other
\* participant, each with the name of such an entry, and with the flags the
\* file gives or else assignmentsReady false, lastShuffledAt null and
\* registrationOpen true.
C25_LoadKeepsExactly ==
    [][(process = "starting" /\ disk # <<>> /\ Loadable(disk)) =>
            LET parsed == disk[1].data
                entries == parsed.participants
                kept == {k \in DOMAIN entries : HasTokenAndName(entries[k])}
            IN  /\ process' = "serving"
                /\ Keys(participants') = {entries[k].token : k \in kept}
                /\ \A t \in Keys(participants') : \E k \in kept :
                        /\ entries[k].token = t
                        /\ entries[k].name = participants'[t].name
                /\ "assignmentsReady" \notin DOMAIN parsed => ~assignmentsReady'
                /\ "lastShuffledAt" \notin DOMAIN parsed => lastShuffledAt' = NullTime
                /\ "registrationOpen" \notin DOMAIN parsed => registrationOpen']_vars

\* C31 as stated: when a shuffle returns its success response the registry
\* has assignmentsReady true, registrationOpen false and a lastShuffledAt
\* that is not null.
C31_ShuffleReturnsReady ==
    [][\A r \in Requests :
        ReturnsSuccess(r) /\ req[r].kind = "shuffle" =>
            /\ assignmentsReady' /\ ~registrationOpen'
            /\ lastShuffledAt' # NullTime]_vars

\* C31, amended: when a shuffle returns its success response the canonical
\* file is the snapshot that shuffle took, with assignmentsReady true,
\* registrationOpen false and a lastShuffledAt that is not null, and the
\* return leaves the registry as the requests handled since have made it.
C31_ShuffleReturnsDurable ==
    [][\A r \in Requests :
        ReturnsSuccess(r) /\ req[r].kind = "shuffle" =>
            LET taken == PayloadIn(persistQueue, r)
            IN  /\ disk' = <<WholeFile(taken)>>
                /\ taken.assignmentsReady /\ ~taken.registrationOpen
                /\ taken.lastShuffledAt # NullTime
                /\ UNCHANGED registry]_vars

\* C31 witness: a shuffle has returned, its snapshot is the canonical file,
\* and a reopen handled before that return, whose write is the only one
\* queued, has left the registry open and without assignments.
C31_Witness ==
    /\ disk # <<>> /\ DiskState.assignmentsReady /\ ~DiskState.registrationOpen
    /\ ~assignmentsReady /\ registrationOpen /\ lastShuffledAt = NullTime
    /\ Len(persistQueue) = 1 /\ writer = "idle"
    /\ \E r \in Requests :
           /\ req[r].pc = "waiting" /\ req[r].kind = "reopen"
           /\ Stringify(req[r].previousState) = DiskState

\* C32: on a storage that never fails, whenever no write is queued the
\* canonical file is the serialized registry, or there is no file yet and
\* the registry is as the module created it.
C32_QuiescentFileIsMemory ==
    persistQueue = <<>> =>
        IF disk = <<>> THEN captureState = InitialState
        ELSE disk = <<WholeFile(Stringify(captureState))>>

\* C32 witness: no request is in flight and no write is queued after a
\* registration that was handled while a shuffle was being written: the
\* registry is closed, unassigned and full, and so is the file.
C32_Witness ==
    /\ persistQueue = <<>> /\ \A r \in Requests : req[r].pc = "idle"
    /\ disk # <<>>
    /\ Keys(participants) = Tokens
    /\ ~assignmentsReady /\ ~registrationOpen

====
